---------------------------- MODULE Spec2Model ----------------------------
(***************************************************************************)
(* eyeint: an integer kept as an explicit bit vector (src/int.rs), its     *)
(* text rendering (src/format.rs), the literal parser (src/parse.rs) and   *)
(* the command-line driver run() (src/main.rs).                            *)
(*                                                                         *)
(* Representation.  A bit sequence is a TLA+ sequence of BOOLEAN, index 0  *)
(* of the code (the least-significant bit) being element 1.  A u64 / i64   *)
(* is the sequence of its 64 bits; all 64-bit arithmetic is done on such   *)
(* sequences because the values do not fit the model checker's integers.   *)
(* A string is a sequence of one-character strings.  Option<T> is a set:   *)
(* {} is None and {x} is Some(x).                                          *)
(***************************************************************************)
EXTENDS Integers, Sequences, FiniteSets, TLC

VARIABLES
    app,      \* the parsed command line of run(); NoApp when the library is driven directly
    pc,       \* position of the driver
    elem,     \* the u64 handed to Integer::new
    options,  \* the IntegerOptions handed to Integer::new
    integer,  \* the Integer value: [bits, negative]
    out       \* the rendered strings: every print of run(), in order; for the library
              \* driver the strings returned by the latest call, if it was a rendering

vars == <<app, pc, elem, options, integer, out>>

-----------------------------------------------------------------------------
(* Program constants *)

\* const MAX_BITS: usize = u64::BITS as usize
MAX_BITS == 64

\* size_of::<T>() * 8 for T = u64, the only storage type the program uses
StorageBits == 64

-----------------------------------------------------------------------------
(* Bounds of the model *)

\* source words: every pattern of the LowBits lowest bits ...
LowBits == 2
\* ... and significant-bit counts up to EdgeWidth
EdgeWidth == 3

-----------------------------------------------------------------------------
(* Generic helpers *)

\* the sequence f, held as an explicit tuple
Tup(f) == <<>> \o f

Rep(x, n) == Tup([i \in 1..n |-> x])

Rev(s) == Tup([i \in 1..Len(s) |-> s[Len(s) + 1 - i]])

Min(a, b) == IF a <= b THEN a ELSE b

\* Option::unwrap_or-style access
Unwrap(o) == CHOOSE x \in o : TRUE

UnwrapOr(o, d) == IF o = {} THEN d ELSE Unwrap(o)

\* all bit sequences of length n
BitSeqs(n) == [1..n -> BOOLEAN]

\* slice.last().map(|f| *f).unwrap_or_default()
LastBit(s) == IF Len(s) = 0 THEN FALSE ELSE s[Len(s)]

-----------------------------------------------------------------------------
(* 64-bit words *)

ZeroWord == Rep(FALSE, 64)

\* zero-extension of a bit sequence of at most 64 bits to a word
ToWord(s) == Tup([i \in 1..64 |-> i <= Len(s) /\ s[i]])

\* u64::leading_zeros
leading_zeros(w) ==
    IF \E i \in 1..64 : w[i]
    THEN 64 - (CHOOSE i \in 1..64 : w[i] /\ \A j \in (i+1)..64 : ~w[j])
    ELSE 64

\* i64::leading_ones
leading_ones(w) ==
    IF \E i \in 1..64 : ~w[i]
    THEN 64 - (CHOOSE i \in 1..64 : ~w[i] /\ \A j \in (i+1)..64 : w[j])
    ELSE 64

\* BitSlice::trailing_zeros on an Lsb0 view: the zero bits at the high-index end
trailing_zeros(s) ==
    IF \E i \in 1..Len(s) : s[i]
    THEN Len(s) - (CHOOSE i \in 1..Len(s) : s[i] /\ \A j \in (i+1)..Len(s) : ~s[j])
    ELSE Len(s)

\* BitSlice::first_one: index (0-based) of the lowest set bit
first_one(s) ==
    IF \E i \in 1..Len(s) : s[i]
    THEN {(CHOOSE i \in 1..Len(s) : s[i] /\ \A j \in 1..(i-1) : ~s[j]) - 1}
    ELSE {}

\* s + 1 modulo 2^Len(s): bit i flips iff every lower bit is set
Inc(s) == Tup([i \in 1..Len(s) |-> s[i] # (\A j \in 1..(i-1) : s[j])])

NotBits(s) == Tup([i \in 1..Len(s) |-> ~s[i]])

\* i64::wrapping_neg / the negation modulo 2^Len(s): invert, then add one
WrappingNeg(s) == Inc(NotBits(s))

\* the word 2^63 (i64::MIN as a bit pattern)
I64Min == Tup([i \in 1..64 |-> i = 64])

-----------------------------------------------------------------------------
(* src/int.rs *)

\* bitslice.len() - bitslice.trailing_zeros()
InferredSignificantBits(e) == Len(e) - trailing_zeros(e)

\* slice with every bit at an index >= from inverted
FlipFrom(slice, from) ==
    Tup([i \in 1..Len(slice) |-> IF i - 1 >= from THEN ~slice[i] ELSE slice[i]])

FlipAbove(slice, first) == IF first = {} THEN slice ELSE FlipFrom(slice, Unwrap(first) + 1)

\* variant: the lowest set bit is inverted as well
FlipAboveInclusive(slice, first) ==
    IF first = {} THEN slice ELSE FlipFrom(slice, Unwrap(first))

\* variant of make_slice_twos_complement built on it
make_slice_twos_complement_inclusive(slice) == FlipAboveInclusive(slice, first_one(slice))

\* variant: every bit inverted (the one's complement)
make_slice_ones_complement(slice) == NotBits(slice)

\* fn make_slice_twos_complement: flip every bit above the lowest set bit
make_slice_twos_complement(slice) == FlipAbove(slice, first_one(slice))

\* the assert! of Integer::new
NewPrecondition(o) == StorageBits >= o.size

\* e with every bit in [from, to) set
FillOnes(e, from, to) ==
    Tup([i \in 1..Len(e) |-> IF i - 1 >= from /\ i - 1 < to THEN TRUE ELSE e[i]])

\* the sign-extension step of Integer::new
Extend(e, o, significant_bits) ==
    IF o.sign_extend /\ o.size > significant_bits
    THEN FillOnes(e, significant_bits, o.size)
    ELSE e

\* the Integer made of the first size bits of bitslice
Build(bitslice, o) ==
    [bits |-> SubSeq(bitslice, 1, o.size),
     negative |-> o.signed /\ LastBit(SubSeq(bitslice, 1, o.size))]

\* variant: the sign is read off the most-significant bit whatever options.signed says
Integer_new_msb_is_sign(e, o) ==
    [Build(Extend(e, o, UnwrapOr(o.significant_bits, InferredSignificantBits(e))), o)
        EXCEPT !.negative = LastBit(Build(Extend(e, o, UnwrapOr(o.significant_bits, InferredSignificantBits(e))), o).bits)]

\* Integer::new, for options that pass the assert!
Integer_new(e, o) ==
    Build(Extend(e, o, UnwrapOr(o.significant_bits, InferredSignificantBits(e))), o)

\* Integer::twos_complement (the pure form)
twos_complement(self) == make_slice_twos_complement(self.bits)

\* variant: the flag derived afresh from the most-significant bit
update_negative_prop_fresh(self) ==
    [self EXCEPT !.negative = LastBit(self.bits)]

\* Integer::update_negative_prop
update_negative_prop(self) ==
    [self EXCEPT !.negative = self.negative /\ LastBit(self.bits)]

\* Integer::bits
bits(self) == Len(self.bits)

\* Integer::is_negative
is_negative(self) == self.negative

\* int_from_slice::<u64, _>: OR of (bit << idx); defined for slices of at most 64 bits
int_from_slice_u64(slice) == ToWord(slice)

\* int_from_slice::<u32, _> as used for one digit: the sum of bit * 2^idx
RECURSIVE int_from_slice_u32(_)
int_from_slice_u32(slice) ==
    IF slice = <<>> THEN 0
    ELSE (IF Head(slice) THEN 1 ELSE 0) + 2 * int_from_slice_u32(Tail(slice))

-----------------------------------------------------------------------------
(* Text: std's Display for u64 / i64 and char::from_digit *)

DigitChars ==
    <<"0", "1", "2", "3", "4", "5", "6", "7", "8", "9", "a", "b", "c", "d", "e", "f">>

\* the four 16-bit limbs of a word, least-significant limb first
Limbs(w) == Tup([k \in 1..4 |-> int_from_slice_u32(SubSeq(w, 16 * (k - 1) + 1, 16 * k))])

\* the word of four 16-bit limbs
FromLimbs(l) ==
    Tup([i \in 1..64 |-> (l[((i - 1) \div 16) + 1] \div (2 ^ ((i - 1) % 16))) % 2 = 1])

\* long division of a four-limb number by 10000, from limb k down: quotient limbs
\* and remainder
RECURSIVE LongDiv10000(_, _, _, _)
LongDiv10000(l, k, r, q) ==
    IF k = 0 THEN [quot |-> q, rem |-> r]
    ELSE LongDiv10000(l, k - 1, (r * 65536 + l[k]) % 10000,
                      <<(r * 65536 + l[k]) \div 10000>> \o q)

\* the n least-significant groups of four decimal digits of a four-limb number
RECURSIVE DecGroups(_, _)
DecGroupsStep(d, n) == <<d.rem>> \o DecGroups(d.quot, n - 1)
DecGroups(l, n) == IF n = 0 THEN <<>> ELSE DecGroupsStep(LongDiv10000(l, 4, 0, <<>>), n)

\* decimal digit i (1 = least significant) of the number held in groups
DecDigit(groups, i) == (groups[((i - 1) \div 4) + 1] \div (10 ^ ((i - 1) % 4))) % 10

\* the number of decimal digits without leading zeros (1 for zero)
DecLen(groups) ==
    IF \E i \in 1..20 : DecDigit(groups, i) # 0
    THEN CHOOSE i \in 1..20 :
            DecDigit(groups, i) # 0 /\ \A j \in (i + 1)..20 : DecDigit(groups, j) = 0
    ELSE 1

DecText(groups, n) == Tup([i \in 1..n |-> DigitChars[DecDigit(groups, n + 1 - i) + 1]])

DecString(groups) == DecText(groups, DecLen(groups))

\* <u64 as Display>::fmt: base 10, no sign, no leading zeros
u64_to_string(w) == DecString(DecGroups(Limbs(w), 5))

\* <i64 as Display>::fmt: a "-" and the magnitude when the sign bit is set
i64_to_string(w) ==
    IF w[64] THEN <<"-">> \o u64_to_string(WrappingNeg(w)) ELSE u64_to_string(w)

\* char::from_digit(num, radix), radix <= 16
from_digit(num, radix) == IF num < radix THEN {DigitChars[num + 1]} ELSE {}

-----------------------------------------------------------------------------
(* src/format.rs *)

\* BitSlice::chunks(n): consecutive groups of n bits from index 0, the last one shorter
chunks(s, n) ==
    Tup([k \in 1..((Len(s) + n - 1) \div n) |->
            SubSeq(s, (k - 1) * n + 1, Min(Len(s), k * n))])

\* variant: the group read most-significant bit first
bits_to_char_msb_first(slice, radix) ==
    Unwrap(from_digit(int_from_slice_u32(Rev(slice)), radix))

\* fn bits_to_char: char::from_digit(int_from_slice(slice), radix).expect(..)
bits_to_char(slice, radix) == Unwrap(from_digit(int_from_slice_u32(slice), radix))

\* the negation -(x as i64) of Display overflows exactly for x = i64::MIN
NegationOverflows(self) ==
    is_negative(self) /\ int_from_slice_u64(twos_complement(self)) = I64Min

\* variant: the sign read off the most-significant bit instead of the cached flag
Display_signed_reading(self) ==
    IF self.bits # <<>> /\ LastBit(self.bits)
    THEN i64_to_string(WrappingNeg(int_from_slice_u64(twos_complement(self))))
    ELSE u64_to_string(int_from_slice_u64(self.bits))

\* <Integer as Display>::fmt, the text it writes when the negation does not panic
Display(self) ==
    IF is_negative(self)
    THEN i64_to_string(WrappingNeg(int_from_slice_u64(twos_complement(self))))
    ELSE u64_to_string(int_from_slice_u64(self.bits))

\* the outcomes of <Integer as Display>::fmt: an overflowing negation panics in a
\* build with overflow checks and wraps in a build without
DisplayOutcomes(self) ==
    {[panic |-> FALSE, text |-> Display(self)]}
        \cup (IF NegationOverflows(self) THEN {[panic |-> TRUE, text |-> <<>>]} ELSE {})

\* .map(|b| if *b { '1' } else { '0' })
BitChars(s) == Tup([i \in 1..Len(s) |-> IF s[i] THEN "1" ELSE "0"])

\* .map(|c| bits_to_char(c, radix))
ChunkChars(c, radix) == Tup([k \in 1..Len(c) |-> bits_to_char(c[k], radix)])

\* FormatBits::binary_string
binary_string(self) == Rev(BitChars(self.bits))

\* FormatBits::octal_string
octal_string(self) == Rev(ChunkChars(chunks(self.bits, 3), 8))

\* FormatBits::hex_string
hex_string(self) == Rev(ChunkChars(chunks(self.bits, 4), 16))

\* <Integer as Binary>::fmt
Binary_fmt(self) == Rev(BitChars(self.bits))

\* <Integer as Octal>::fmt
Octal_fmt(self) == Rev(ChunkChars(chunks(self.bits, 3), 8))

\* <Integer as LowerHex>::fmt
LowerHex_fmt(self) == Rev(ChunkChars(chunks(self.bits, 4), 16))

-----------------------------------------------------------------------------
(* The library driven directly: one Integer::new, then any sequence of        *)
(* make_twos_complement calls and renderings.                                 *)

NoApp == [input |-> <<>>]

\* the value of `integer` before Integer::new has returned
Unbuilt == [bits |-> <<>>, negative |-> FALSE]

\* source words: any low bits, a uniform middle, any top bit
Elems ==
    {lo \o Rep(f, 64 - LowBits - 1) \o <<t>> : lo \in BitSeqs(LowBits), f, t \in BOOLEAN}

\* every width the assert! accepts, and one it rejects
Sizes == 0..(StorageBits + 1)

\* no count (inferred), the counts up to EdgeWidth, and the largest a width can exceed
SignificantBitsArgs == {{}} \cup {{n} : n \in (0..EdgeWidth) \cup {StorageBits - 1}}

OptionSets ==
    [signed : BOOLEAN, size : Sizes, significant_bits : SignificantBitsArgs,
     sign_extend : BOOLEAN]

Init ==
    /\ app = NoApp
    /\ pc = "start"
    /\ elem \in Elems
    /\ options \in OptionSets
    /\ integer = Unbuilt
    /\ out = <<>>

\* Integer::new(elem, options)
New ==
    /\ pc = "start"
    /\ IF NewPrecondition(options)
       THEN integer' = Integer_new(elem, options) /\ pc' = "built"
       ELSE integer' = integer /\ pc' = "abort"
    /\ UNCHANGED <<app, elem, options, out>>

\* Integer::make_twos_complement
make_twos_complement ==
    /\ pc = "built"
    /\ integer' = update_negative_prop(
                      [integer EXCEPT !.bits = make_slice_twos_complement(integer.bits)])
    /\ out' = <<>>
    /\ UNCHANGED <<app, pc, elem, options>>

\* to_string(), binary_string(), octal_string(), hex_string() of the current value
Fmt ==
    /\ pc = "built"
    /\ \E d \in DisplayOutcomes(integer) :
          IF d.panic
          THEN pc' = "abort" /\ out' = out
          ELSE /\ pc' = pc
               /\ out' = <<[decimal |-> d.text, binary |-> binary_string(integer),
                            octal |-> octal_string(integer), hex |-> hex_string(integer)]>>
    /\ UNCHANGED <<app, elem, options, integer>>

Next == New \/ make_twos_complement \/ Fmt

Spec == Init /\ [][Next]_vars

-----------------------------------------------------------------------------
(* Strings and std's from_str_radix *)

\* str::starts_with
starts_with(str, prefix) ==
    Len(str) >= Len(prefix) /\ SubSeq(str, 1, Len(prefix)) = prefix

\* str::trim_start_matches: the prefix removed as often as it repeats
RECURSIVE trim_start_matches(_, _)
trim_start_matches(str, prefix) ==
    IF prefix # <<>> /\ starts_with(str, prefix)
    THEN trim_start_matches(SubSeq(str, Len(prefix) + 1, Len(str)), prefix)
    ELSE str

\* char::to_ascii_uppercase on the letters the model's strings use
UpperChar(c) ==
    CASE c = "a" -> "A" [] c = "b" -> "B" [] c = "c" -> "C" [] c = "d" -> "D"
      [] c = "e" -> "E" [] c = "f" -> "F" [] c = "g" -> "G" [] c = "o" -> "O"
      [] c = "x" -> "X" [] OTHER -> c

\* str::to_ascii_uppercase
to_ascii_uppercase(str) == Tup([i \in 1..Len(str) |-> UpperChar(str[i])])

\* the value of a character as a digit, in any radix up to 16
DigitValue(c) ==
    CASE c = "0" -> {0} [] c = "1" -> {1} [] c = "2" -> {2} [] c = "3" -> {3}
      [] c = "4" -> {4} [] c = "5" -> {5} [] c = "6" -> {6} [] c = "7" -> {7}
      [] c = "8" -> {8} [] c = "9" -> {9}
      [] c \in {"a", "A"} -> {10} [] c \in {"b", "B"} -> {11} [] c \in {"c", "C"} -> {12}
      [] c \in {"d", "D"} -> {13} [] c \in {"e", "E"} -> {14} [] c \in {"f", "F"} -> {15}
      [] OTHER -> {}

\* char::to_digit(radix), radix <= 16
to_digit(c, rdx) == {d \in DigitValue(c) : d < rdx}

\* l * rdx + d on four 16-bit limbs: the low 64 bits and the carry out of them
MulAdd4(t1, t2, t3, t4) ==
    [limbs |-> <<t1 % 65536, t2 % 65536, t3 % 65536, t4 % 65536>>, carry |-> t4 \div 65536]
MulAdd3(l, rdx, t1, t2, t3) == MulAdd4(t1, t2, t3, l[4] * rdx + t3 \div 65536)
MulAdd2(l, rdx, t1, t2) == MulAdd3(l, rdx, t1, t2, l[3] * rdx + t2 \div 65536)
MulAdd1(l, rdx, t1) == MulAdd2(l, rdx, t1, l[2] * rdx + t1 \div 65536)
MulAdd(l, rdx, d) == MulAdd1(l, rdx, l[1] * rdx + d)

\* whether a magnitude is in range for the type: u64, a positive i64, a negative i64
InRange(m, ty, positive) ==
    /\ m.carry = 0
    /\ ty = "i64" /\ positive => m.limbs[4] < 32768
    /\ ty = "i64" /\ ~positive => m.limbs[4] < 32768 \/ m.limbs = <<0, 0, 0, 32768>>

\* one iteration of the digit loop of from_str_radix: checked_mul by the radix, then
\* checked_add (or checked_sub) of the digit; {} when the character is no digit or the
\* step overflows.  The magnitude only grows, so the multiplication is in range when
\* the sum is.
DigitLoopNext(ty, positive, m) == IF InRange(m, ty, positive) THEN {m.limbs} ELSE {}

DigitLoopStep(rdx, ty, positive, d, l) ==
    IF d = {} THEN {} ELSE DigitLoopNext(ty, positive, MulAdd(l, rdx, Unwrap(d)))

\* the loop over digits[lo..hi] from the accumulator acc, left to right, an error
\* ending it; the range is walked in halves to keep the evaluation shallow
RECURSIVE DigitLoop(_, _, _, _, _, _, _)
DigitLoop(digits, lo, hi, rdx, ty, positive, acc) ==
    IF acc = {} \/ lo > hi THEN acc
    ELSE IF lo = hi
    THEN DigitLoopStep(rdx, ty, positive, to_digit(digits[lo], rdx), Unwrap(acc))
    ELSE DigitLoop(digits, ((lo + hi) \div 2) + 1, hi, rdx, ty, positive,
                   DigitLoop(digits, lo, (lo + hi) \div 2, rdx, ty, positive, acc))

\* the Ok value of from_str_radix from the magnitude its loop computed
Signed(mag, positive) ==
    IF mag = {} THEN {}
    ELSE IF positive THEN {FromLimbs(Unwrap(mag))}
    ELSE {WrappingNeg(FromLimbs(Unwrap(mag)))}

\* <u64>::from_str_radix (ty = "u64") and <i64>::from_str_radix (ty = "i64"), for a
\* radix in 2..=36: Option-like, {} for every Err
from_str_radix(src, rdx, ty) ==
    IF src = <<>> THEN {}
    ELSE IF Head(src) \in {"+", "-"} /\ Len(src) = 1 THEN {}
    ELSE IF Head(src) = "+"
    THEN Signed(DigitLoop(src, 2, Len(src), rdx, ty, TRUE, {<<0, 0, 0, 0>>}), TRUE)
    ELSE IF Head(src) = "-" /\ ty = "i64"
    THEN Signed(DigitLoop(src, 2, Len(src), rdx, ty, FALSE, {<<0, 0, 0, 0>>}), FALSE)
    ELSE Signed(DigitLoop(src, 1, Len(src), rdx, ty, TRUE, {<<0, 0, 0, 0>>}), TRUE)

-----------------------------------------------------------------------------
(* src/parse.rs *)

\* the Result of parse: ok, the integer and the optional significant-bit count
ParseResult(int, sig) ==
    IF int = {} THEN [ok |-> FALSE, int |-> ZeroWord, sig |-> {}]
    ELSE [ok |-> TRUE, int |-> Unwrap(int), sig |-> sig]

\* the closure parse_with_sig_bits, its count multiplied by the bits per digit
Trimmed(str, prefix) ==
    trim_start_matches(trim_start_matches(str, prefix), to_ascii_uppercase(prefix))

FromTrimmed(trimmed, rdx, ty, bits_per_digit) ==
    ParseResult(from_str_radix(trimmed, rdx, ty), {Len(trimmed) * bits_per_digit})

parse_with_sig_bits(str, rdx, ty, prefix, bits_per_digit) ==
    FromTrimmed(Trimmed(str, prefix), rdx, ty, bits_per_digit)

\* fn parse::<I>(str, radix), I = u64 or i64
parse(str, rdx, ty) ==
    CASE rdx = 2 -> parse_with_sig_bits(str, rdx, ty, <<"0", "b">>, 1)
      [] rdx = 8 -> parse_with_sig_bits(str, rdx, ty, <<"0", "o">>, 3)
      [] rdx = 16 -> parse_with_sig_bits(str, rdx, ty, <<"0", "x">>, 4)
      [] OTHER -> ParseResult(from_str_radix(str, rdx, ty), {})

\* fn identify_radix
identify_radix(str) ==
    IF starts_with(str, <<"0", "x">>) THEN {16}
    ELSE IF starts_with(str, <<"0", "b">>) THEN {2}
    ELSE IF starts_with(str, <<"0", "o">>) \/ starts_with(str, <<"0", "O">>) THEN {8}
    ELSE {}

-----------------------------------------------------------------------------
(* src/main.rs *)

\* const fn total_bits
total_bits(a) ==
    IF a.bits # {} THEN a.bits
    ELSE IF a.bytes # {} THEN {Unwrap(a.bytes) * 8}
    ELSE IF a.byte THEN {8}
    ELSE IF a.short THEN {16}
    ELSE IF a.int THEN {32}
    ELSE IF a.long THEN {64}
    ELSE {}

\* const fn radix
radix(a) ==
    IF a.radix # {} THEN a.radix
    ELSE IF a.binary THEN {2}
    ELSE IF a.octal THEN {8}
    ELSE IF a.decimal THEN {10}
    ELSE IF a.hexadecimal THEN {16}
    ELSE {}

\* run(): radix(&app).or_else(|| identify_radix(&app.input)).unwrap_or(10)
RunRadix(a) ==
    IF radix(a) # {} THEN Unwrap(radix(a)) ELSE UnwrapOr(identify_radix(a.input), 10)

\* run(): app.bits.or_else(|| app.bytes.map(|b| b * 8)).unwrap_or_default() > MAX_BITS
TooManyBits(a) ==
    (IF a.bits # {} THEN Unwrap(a.bits)
     ELSE IF a.bytes # {} THEN Unwrap(a.bytes) * 8
     ELSE 0) > MAX_BITS

\* run(): let is_negative = app.input.starts_with('-')
InputIsNegative(a) == starts_with(a.input, <<"-">>)

\* run(): the parse of the input, as i64 when it starts with '-' and as u64 otherwise;
\* a negative input gets (i64::BITS - int.leading_ones() + 1) as its count
NegativeParse(p) ==
    IF p.ok THEN [p EXCEPT !.sig = {64 - leading_ones(p.int) + 1}] ELSE p

RunParsed(a) ==
    IF InputIsNegative(a)
    THEN NegativeParse(parse(a.input, RunRadix(a), "i64"))
    ELSE parse(a.input, RunRadix(a), "u64")

\* run(): opt_significant_bits.unwrap_or_else(|| (u64::BITS - int.leading_zeros()))
RunSignificantBits(p) == UnwrapOr(p.sig, 64 - leading_zeros(p.int))

\* run(): the IntegerOptions it builds
SignedOf(a) == a.signed \/ InputIsNegative(a)

OptionsOf(a, significant_bits) ==
    [signed |-> SignedOf(a),
     size |-> UnwrapOr(total_bits(a), significant_bits),
     significant_bits |-> {significant_bits},
     sign_extend |-> ~a.zero_extend /\ (a.sign_extend \/ SignedOf(a))]

RunOptions(a, p) == OptionsOf(a, RunSignificantBits(p))

\* fn print_integer_info: to_string(), {:b}, {:o}, {:x}
print_integer_info(self, decimal) ==
    [decimal |-> decimal, binary |-> Binary_fmt(self), octal |-> Octal_fmt(self),
     hex |-> LowerHex_fmt(self)]

-----------------------------------------------------------------------------
(* run() *)

\* the command lines: the input strings ...
ShortInputs ==
    {<<"0">>,
     <<"5">>,
     <<"1", "0">>,
     <<"2", "5", "5">>,
     <<"+", "5">>,
     <<"-", "0">>,
     <<"-", "1">>,
     <<"-", "5">>,
     <<"-", "1", "2", "8">>,
     <<"1", "8", "4", "4", "6", "7", "4", "4", "0", "7", "3", "7", "0", "9", "5", "5", "1", "6", "1", "5">>,
     <<"1", "8", "4", "4", "6", "7", "4", "4", "0", "7", "3", "7", "0", "9", "5", "5", "1", "6", "1", "6">>,
     <<"9", "2", "2", "3", "3", "7", "2", "0", "3", "6", "8", "5", "4", "7", "7", "5", "8", "0", "8">>,
     <<"-", "9", "2", "2", "3", "3", "7", "2", "0", "3", "6", "8", "5", "4", "7", "7", "5", "8", "0", "8">>,
     <<"-", "9", "2", "2", "3", "3", "7", "2", "0", "3", "6", "8", "5", "4", "7", "7", "5", "8", "0", "9">>,
     <<>>,
     <<"-">>,
     <<"5", "a">>,
     <<"1", "0", "1">>,
     <<"1", "7">>,
     <<"f", "b">>,
     <<"-", "f", "b">>,
     <<"-", "1", "0", "1">>,
     <<"0", "x", "0">>,
     <<"0", "x", "f", "b">>,
     <<"0", "x", "F", "B">>,
     <<"0", "x", "0", "f">>,
     <<"0", "X", "1", "f">>,
     <<"0", "x", "g">>,
     <<"0", "x">>,
     <<"0", "x", "0", "x", "5">>,
     <<"-", "0", "x", "5">>,
     <<"0", "o", "0">>,
     <<"0", "o", "1", "7">>,
     <<"0", "O", "1", "7">>,
     <<"0", "o", "8">>,
     <<"0", "b", "0">>,
     <<"0", "b", "1", "0", "1">>,
     <<"0", "b", "0", "0", "0", "1">>,
     <<"0", "B", "1", "0", "1">>,
     <<"0", "b", "0", "b", "1">>}

\* ... the longest literals of each prefixed radix: 16 and 17 hexadecimal digits, 21
\* and 22 octal digits, 64 and 65 binary digits
LongInputs ==
    {<<"0", "x">> \o Rep("f", 16),
     <<"0", "x", "0">> \o Rep("f", 16),
     <<"0", "x", "1">> \o Rep("0", 16),
     <<"0", "o">> \o Rep("7", 21),
     <<"0", "o", "1">> \o Rep("7", 21),
     <<"0", "o", "2">> \o Rep("0", 21),
     <<"0", "b">> \o Rep("1", 64),
     <<"0", "b", "0">> \o Rep("1", 64)}

Inputs == ShortInputs \cup LongInputs

\* ... the width flags (group "number-bits": at most one of them) ...
WidthArgs ==
    {[byte |-> FALSE, short |-> FALSE, int |-> FALSE, long |-> FALSE, bytes |-> {},
      bits |-> {}]}
    \cup {[byte |-> f = 1, short |-> f = 2, int |-> f = 3, long |-> f = 4, bytes |-> {},
           bits |-> {}] : f \in 1..4}
    \cup {[byte |-> FALSE, short |-> FALSE, int |-> FALSE, long |-> FALSE, bytes |-> {n},
           bits |-> {}] : n \in {1, 8, 9}}
    \cup {[byte |-> FALSE, short |-> FALSE, int |-> FALSE, long |-> FALSE, bytes |-> {},
           bits |-> {n}] : n \in {0, 1, 8, 64, 65}}

\* ... the radix flags (group "format": at most one of them) ...
FormatArgs ==
    {[binary |-> f = 1, octal |-> f = 2, decimal |-> f = 3, hexadecimal |-> f = 4,
      radix |-> {}] : f \in 0..4}
    \cup {[binary |-> FALSE, octal |-> FALSE, decimal |-> FALSE, hexadecimal |-> FALSE,
           radix |-> {n}] : n \in {4, 16}}

\* ... and the extension flags (group "extend": at most one of them)
ExtendArgs ==
    {[sign_extend |-> FALSE, zero_extend |-> FALSE],
     [sign_extend |-> TRUE, zero_extend |-> FALSE],
     [sign_extend |-> FALSE, zero_extend |-> TRUE]}

\* struct App, as App::parse() returns it
MkApp(input, signed, w, f, e, twos) ==
    [input |-> input, signed |-> signed, byte |-> w.byte, short |-> w.short,
     int |-> w.int, long |-> w.long, bytes |-> w.bytes, bits |-> w.bits,
     sign_extend |-> e.sign_extend, zero_extend |-> e.zero_extend,
     binary |-> f.binary, octal |-> f.octal, decimal |-> f.decimal,
     hexadecimal |-> f.hexadecimal, radix |-> f.radix, twos_complement |-> twos]

Apps ==
    {MkApp(input, signed, w, f, e, twos) :
        input \in Inputs, signed \in BOOLEAN, w \in WidthArgs, f \in FormatArgs,
        e \in ExtendArgs, twos \in BOOLEAN}

InitRun ==
    /\ app \in Apps
    /\ pc = "run"
    /\ elem = ZeroWord
    /\ options = [signed |-> FALSE, size |-> 0, significant_bits |-> {},
                  sign_extend |-> FALSE]
    /\ integer = Unbuilt
    /\ out = <<>>

\* run(), to the call of Integer::new: the bit-count check, the parse, the options
RunParseStep(p) ==
    IF p.ok
    THEN pc' = "parsed" /\ elem' = p.int /\ options' = RunOptions(app, p)
    ELSE pc' = "err" /\ UNCHANGED <<elem, options>>

RunParse ==
    /\ pc = "run"
    /\ IF TooManyBits(app)
       THEN pc' = "err" /\ UNCHANGED <<elem, options>>
       ELSE RunParseStep(RunParsed(app))
    /\ UNCHANGED <<app, integer, out>>

\* run(): Integer::new and the first print_integer_info
RunNewStep(self) ==
    /\ integer' = self
    /\ \E d \in DisplayOutcomes(self) :
          IF d.panic
          THEN pc' = "abort" /\ out' = out
          ELSE pc' = "printed" /\ out' = Append(out, print_integer_info(self, d.text))

RunNew ==
    /\ pc = "parsed"
    /\ IF NewPrecondition(options)
       THEN RunNewStep(Integer_new(elem, options))
       ELSE pc' = "abort" /\ UNCHANGED <<integer, out>>
    /\ UNCHANGED <<app, elem, options>>

\* run(): the --twos-complement part, and the return
RunTwosStep(self) ==
    /\ integer' = self
    /\ \E d \in DisplayOutcomes(self) :
          IF d.panic
          THEN pc' = "abort" /\ out' = out
          ELSE pc' = "done" /\ out' = Append(out, print_integer_info(self, d.text))

RunTwos ==
    /\ pc = "printed"
    /\ IF app.twos_complement
       THEN RunTwosStep(update_negative_prop(
                [integer EXCEPT !.bits = make_slice_twos_complement(integer.bits)]))
       ELSE pc' = "done" /\ UNCHANGED <<integer, out>>
    /\ UNCHANGED <<app, elem, options>>

NextRun == RunParse \/ RunNew \/ RunTwos

SpecRun == InitRun /\ [][NextRun]_vars

-----------------------------------------------------------------------------
(* Properties *)

\* the Integer as Integer::new returned it
Constructed == Integer_new(elem, options)

\* the unsigned value of the stored bits, as a word
Stored == ToWord(integer.bits)

\* the latest rendering is of the current value
Rendered == pc = "built" /\ out # <<>>

\* b is the two's-complement pattern of -m for some 1 <= m < 2^(Len(b) - 1): the most
\* significant bit is set and so is a lower one
NegativePattern(b) == LastBit(b) /\ \E i \in 1..(Len(b) - 1) : b[i]

\* the only set bit of b is its most significant one
OnlyMsb(b) == LastBit(b) /\ \A i \in 1..(Len(b) - 1) : ~b[i]

\* 1 if bit idx (0-based) of b exists and is set, else 0
BitAt(b, idx) == IF idx < Len(b) /\ b[idx + 1] THEN 1 ELSE 0

\* the value of bits [g*k, min(g*k + g, Len(b))) of b, g = 3 or 4
GroupValue(b, g, k) ==
    BitAt(b, g * k) + 2 * BitAt(b, g * k + 1) + 4 * BitAt(b, g * k + 2)
        + (IF g = 4 THEN 8 * BitAt(b, g * k + 3) ELSE 0)

\* str has n digits and its k-th digit from the right is the value of group k
GroupedDigits(str, b, g, rdx) ==
    /\ Len(str) = (Len(b) + g - 1) \div g
    /\ \A k \in 0..(Len(str) - 1) : to_digit(str[Len(str) - k], rdx) = {GroupValue(b, g, k)}

\* C1: a signed Integer whose bits are the pattern of -m, 1 <= m < 2^(w-1), is negative
\* when constructed, and one make_twos_complement turns its bits into the negation
\* modulo 2^w (the pattern of m) and clears is_negative().
C1_NegatesNegative ==
    [][/\ (pc = "start" /\ pc' = "built" /\ options.signed /\ NegativePattern(integer'.bits))
            => is_negative(integer')
       /\ (pc = "built" /\ is_negative(integer) /\ NegativePattern(integer.bits)
              /\ integer' # integer)
            => (integer'.bits = WrappingNeg(integer.bits) /\ ~is_negative(integer'))]_vars

\* -5 at width 8 was constructed ("fb") and has been complemented once ("05")
C1_Witness ==
    /\ pc = "built"
    /\ options.signed /\ options.size = 8
    /\ is_negative(Constructed) /\ hex_string(Constructed) = <<"f", "b">>
    /\ ~is_negative(integer) /\ hex_string(integer) = <<"0", "5">>
    /\ integer.bits = WrappingNeg(Constructed.bits)

\* C2: the transform applied twice to the bits of any Integer gives them back, and an
\* Integer holds, after any number of make_twos_complement calls, either the bits it
\* was constructed with or their transform, whose transform is the original again.
C2_Involution ==
    pc = "built" =>
        /\ make_slice_twos_complement(twos_complement(integer)) = integer.bits
        /\ \/ integer.bits = Constructed.bits
           \/ /\ integer.bits = twos_complement(Constructed)
              /\ twos_complement(integer) = Constructed.bits

\* a 64-bit Integer that a call has changed and that the next call restores
C2_Witness ==
    /\ pc = "built" /\ bits(integer) = 64
    /\ integer.bits # Constructed.bits
    /\ twos_complement(integer) = Constructed.bits

\* C4 as stated: the decimal string of an Integer that was constructed non-negative,
\* parsed in base 10, is the source value.
C4_Original ==
    (Rendered /\ integer = Constructed /\ ~is_negative(integer))
        => from_str_radix(out[1].decimal, 10, "u64") = {elem}

\* C4 as amended: the decimal string of a non-negative Integer, parsed in base 10, is
\* the unsigned value of the stored bits; for the Integer as constructed it is the
\* source value when the source value fits the width and the constructor filled in
\* no extension bits.
C4_RoundTrip ==
    (Rendered /\ ~is_negative(integer))
        => /\ from_str_radix(out[1].decimal, 10, "u64") = {Stored}
           /\ (/\ integer = Constructed
               /\ InferredSignificantBits(elem) <= options.size
               /\ ~(/\ options.sign_extend
                    /\ options.size > UnwrapOr(options.significant_bits,
                                               InferredSignificantBits(elem))))
                => from_str_radix(out[1].decimal, 10, "u64") = {elem}

\* u64::MAX at width 64, unsigned, rendered and read back
C4_Witness ==
    /\ Rendered /\ integer = Constructed /\ ~is_negative(integer)
    /\ options.size = 64 /\ elem = Rep(TRUE, 64)
    /\ Len(out[1].decimal) = 20
    /\ from_str_radix(out[1].decimal, 10, "u64") = {elem}

\* C5: at every width w >= 1 the octal string has ceil(w/3) digits and the hex string
\* ceil(w/4), digit k from the right is the value of bits [g*k, min(g*k+g, w)), and
\* the string read in base 8 or 16 is the unsigned value of the stored bits.
C5_Grouping ==
    (Rendered /\ bits(integer) >= 1)
        => /\ GroupedDigits(out[1].octal, integer.bits, 3, 8)
           /\ GroupedDigits(out[1].hex, integer.bits, 4, 16)
           /\ from_str_radix(out[1].octal, 8, "u64") = {Stored}
           /\ from_str_radix(out[1].hex, 16, "u64") = {Stored}

\* a width divisible by neither 3 nor 4 whose short top group is not zero
C5_Witness ==
    /\ Rendered /\ bits(integer) = 62
    /\ Len(out[1].octal) = 21 /\ Len(out[1].hex) = 16
    /\ out[1].octal[1] = "3" /\ out[1].hex[1] = "3"

\* C7: no step makes is_negative() true, a make_twos_complement call leaves it equal
\* to (old flag AND new most-significant bit), and a negative value whose only set
\* bit is the most significant one stays negative.
C7_FlagOnlyClears ==
    [][pc = "built" =>
          /\ is_negative(integer') = (is_negative(integer) /\ LastBit(integer'.bits))
          /\ ~is_negative(integer) => ~is_negative(integer')
          /\ (is_negative(integer) /\ OnlyMsb(integer.bits)) => is_negative(integer')]_vars

\* a signed Integer whose most-significant bit is set again after two calls, and whose
\* flag stayed false
C7_Witness ==
    /\ pc = "built" /\ options.signed
    /\ is_negative(Constructed)
    /\ LastBit(integer.bits) /\ ~is_negative(integer)

\* C8: is_negative() implies that signed was requested and that the bit at index
\* bits() - 1 is set; an Integer of width 0 is never negative.
C8_NegativeImplies ==
    /\ is_negative(integer) => (options.signed /\ bits(integer) >= 1 /\ LastBit(integer.bits))
    /\ bits(integer) = 0 => ~is_negative(integer)

\* a negative Integer of full width that make_twos_complement maps to itself: the
\* state before a call and the state after it
C8_Witness ==
    /\ pc = "built" /\ is_negative(integer) /\ bits(integer) = 64
    /\ update_negative_prop([integer EXCEPT !.bits = twos_complement(integer)]) = integer

\* C10 as stated: a negative Integer of width w >= 1 renders in decimal as u - 2^w, u
\* the unsigned value of its bits, and the negation in the decimal path does not
\* overflow.
C10_Original ==
    (is_negative(integer) /\ bits(integer) >= 1)
        => /\ ~NegationOverflows(integer)
           /\ pc # "abort"
           /\ Rendered =>
                out[1].decimal = <<"-">> \o u64_to_string(ToWord(WrappingNeg(integer.bits)))

\* C3 as stated: the value 0, unsigned, at width 1 or at the inferred width, prints as
\* "0" in decimal, binary, octal and hexadecimal.
C3_Original ==
    (/\ pc \in {"printed", "done"}
     /\ elem = ZeroWord /\ ~options.signed
     /\ options.size \in {1, InferredSignificantBits(elem)})
        => out[1] = [decimal |-> <<"0">>, binary |-> <<"0">>, octal |-> <<"0">>,
                     hex |-> <<"0">>]

\* C6 as stated: with --zero-extend and a width above the significant-bit count, every
\* bit of the constructed Integer from the count up to the width is 0.
C6_Original ==
    (/\ pc = "printed"
     /\ app.zero_extend
     /\ options.size > Unwrap(options.significant_bits))
        => \A i \in Unwrap(options.significant_bits)..(options.size - 1) :
              ~integer.bits[i + 1]

\* C9 as stated: the size run() passes to Integer::new is at most 64, so the
\* constructor's precondition holds.
C9_Original ==
    pc = "parsed" => (options.size <= MAX_BITS /\ NewPrecondition(options))

=============================================================================
